---- MODULE Spec2Model ----
(***************************************************************************)
(* Verification model of the refl1d evaluation core:                       *)
(*   - refl1d/cheby.py   : cheby_profile (Clenshaw evaluation)             *)
(*   - dream/model.py    : MCMCModel, Density, LogDensity, Simulation,     *)
(*                         MVNormal, Mixture                               *)
(*   - refl1d/gui/app_panel.py : AppPanel, the fit menu and tool bar and   *)
(*                         the handlers of the fit events                  *)
(* Floating point values are modelled as exact rationals <<num, den>>      *)
(* (den > 0, lowest terms) together with the IEEE specials inf, -inf, nan  *)
(* and the finite range of exp; rounding in the last place is not modelled.*)
(***************************************************************************)
EXTENDS Integers, Sequences, FiniteSets, TLC

VARIABLES
    \* ---- cheby.py: one call of cheby_profile ----
    control,    \* the control values handed to cheby_profile
    t,          \* the coordinate array handed to cheby_profile
    method,     \* 'direct' or 'interp'
    profile,    \* the returned array (empty before the call returns)
    chebyPc,    \* "ready" before the call, "returned" after it
    caller,     \* who calls cheby_profile: "cheby_profile" for a call from
                \* outside, "FreeformCheby" or "ChebyVF" for a render
    layer,      \* the layer rendered and what slabs.microslabs returned
    slabs,      \* the arguments of slabs.extend, and the volume fraction
                \* mixed with, once render has returned
    \* ---- dream/model.py: one model instance and the calls made on it ----
    inst,       \* the instance (NoInstance before and after a failed __init__)
    built,      \* the instance as __init__ left it
    ctor,       \* the constructor call made: class and arguments
    op,         \* the last call: "none", "init", "nllf", "log_density"
    raised,     \* the exception class the last call raised, or "none"
    lastX,      \* the parameter vector, when the last call was nllf
    lastPop,    \* the population, when the last call was log_density
    ret,        \* the value returned, when the last call was nllf
    retPop,     \* the array returned, when the last call was log_density
    rng,        \* the RNG argument of the last nllf or log_density call
    received,   \* the nllf bodies entered by the last call, in order, each
                \* with the RNG argument it received
    \* ---- gui/app_panel.py: one AppPanel and the events delivered to it ----
    model,      \* self.model (NoModel while the attribute is not assigned)
    console,    \* whether self.console is assigned; AppPanel never does it
    enabled,    \* the Enable/EnableTool flag of the fit menu items and tools
    fit_thread, \* self.fit_thread: None or the FitThread created
    live,       \* the FitThread objects created and not yet complete
    created,    \* the number of FitThread objects created so far
    sb,         \* the status bar fields written by the handlers
    event,      \* the handler that ran last, "none" after __init__
    guiRaised,  \* the exception class that left the last handler, or "none"
    logged      \* whether the last handler sent a log message

chebyVars == <<control, t, method, profile, chebyPc, caller, layer, slabs>>
modelVars ==
    <<inst, built, ctor, op, raised, lastX, lastPop, ret, retPop, rng, received>>
guiVars   ==
    <<model, console, enabled, fit_thread, live, created, sb, event, guiRaised,
      logged>>
vars      == <<chebyVars, modelVars, guiVars>>

\* ------------------------------------------------------------------------
\* Bounds of the model
\* ------------------------------------------------------------------------
MaxOrder == 3       \* longest control sequence
CMax     == 1       \* control values range over -CMax..CMax
TDen     == 2       \* coordinates are k/TDen
TOver    == 1       \* grid steps taken outside [0, 1] on either side
MaxSlabs == 1       \* longest coordinate array
ExpRange == 3       \* exp(n) is finite and positive exactly for |n| <= ExpRange
Base     == 2       \* the base exp and log are taken in
MaxData  == 2       \* longest data array of a Simulation
MaxSigma == 2       \* Simulation sigma ranges over 1..MaxSigma
LMax     == 2       \* entries of the factors the covariances are built from
MaxArgs  == 4       \* longest argument list of Mixture
MaxPop   == 2       \* largest population handed to log_density
MaxPar   == 1       \* most fittable parameters of a model given to the panel
MaxFits  == 2       \* most FitThread objects created in one run of the panel

\* ------------------------------------------------------------------------
\* Exact rational arithmetic standing for float +, -, *, /
\* ------------------------------------------------------------------------
Abs(a) == IF a < 0 THEN -a ELSE a

RECURSIVE Gcd(_, _)
Gcd(a, b) == IF b = 0 THEN a ELSE Gcd(b, a % b)

\* (arguments are bound through singleton sets so that each is evaluated
\* once by the model checker)
Rat(n, d) ==
    CHOOSE q \in
        {LET s == IF y < 0 THEN -1 ELSE 1
             g == Gcd(Abs(x), Abs(y))
         IN  <<(s * x) \div g, (s * y) \div g>> : x \in {n}, y \in {d}} : TRUE

RInt(n)    == <<n, 1>>
RAdd(a, b) ==
    CHOOSE q \in {Rat(x[1] * y[2] + y[1] * x[2], x[2] * y[2]) :
                     x \in {a}, y \in {b}} : TRUE
RNeg(a)    == CHOOSE q \in {<<-x[1], x[2]>> : x \in {a}} : TRUE
RSub(a, b) == RAdd(a, RNeg(b))
RMul(a, b) ==
    CHOOSE q \in {Rat(x[1] * y[1], x[2] * y[2]) : x \in {a}, y \in {b}} : TRUE
RDiv(a, b) ==
    CHOOSE q \in {Rat(x[1] * y[2], x[2] * y[1]) : x \in {a}, y \in {b}} : TRUE
RLe(a, b)  == a[1] * b[2] <= b[1] * a[2]
RLt(a, b)  == a[1] * b[2] < b[1] * a[2]
RHalf      == <<1, 2>>
RZero      == <<0, 1>>

\* ------------------------------------------------------------------------
\* IEEE floats as used by dream/model.py: a float is a record
\*   k   : "fin", "inf", "-inf" or "nan"
\*   q   : the rational part of a finite value
\*   c, tag, r : an irrational part c * <tag>(r), tag = "none" when absent:
\*       "half_log_2pi"      0.5*log(2*pi)
\*       "log_wB_sigma"      log(wB(gamma)/sigma), r = <<gamma, sigma>>
\*       "log"               log(r), r a positive rational that is no power
\*                           of Base
\* exp and log work in base Base: exp(n) = Base^n for an integer n, and the
\* result leaves the finite range of the float (0 or inf) once |n| exceeds
\* ExpRange (float64: exp(-746) = 0.0, exp(710) = inf).
\* ------------------------------------------------------------------------
FRec(k, q, c, tag, r) == [k |-> k, q |-> q, c |-> c, tag |-> tag, r |-> r]
Fin(q)  == FRec("fin", q, 0, "none", RZero)
FInt(n) == Fin(RInt(n))
PosInf  == FRec("inf", RZero, 0, "none", RZero)
NegInf  == FRec("-inf", RZero, 0, "none", RZero)
NaN     == FRec("nan", RZero, 0, "none", RZero)
FSym(q, c, tag, r) ==
    IF c = 0 THEN Fin(q) ELSE FRec("fin", q, c, tag, r)

IsFinite(v) == v.k = "fin"
IsPlain(v)  == v.k = "fin" /\ v.c = 0
\* sign of a float that is not nan and carries no irrational part
Sign(v) ==
    IF v.k = "inf" THEN 1
    ELSE IF v.k = "-inf" THEN -1
    ELSE IF v.q[1] > 0 THEN 1 ELSE IF v.q[1] < 0 THEN -1 ELSE 0

\* unary minus
FNeg(v) ==
    IF v.k = "nan" THEN NaN
    ELSE IF v.k = "inf" THEN NegInf
    ELSE IF v.k = "-inf" THEN PosInf
    ELSE FSym(RNeg(v.q), -v.c, v.tag, v.r)

\* a + b
FAdd(a, b) ==
    IF a.k = "nan" \/ b.k = "nan" THEN NaN
    ELSE IF a.k = "fin" /\ b.k = "fin" THEN
        IF a.c = 0 THEN FSym(RAdd(a.q, b.q), b.c, b.tag, b.r)
        ELSE IF b.c = 0 THEN FSym(RAdd(a.q, b.q), a.c, a.tag, a.r)
        ELSE FSym(RAdd(a.q, b.q), a.c + b.c, a.tag, a.r)
    ELSE IF a.k = "fin" THEN b
    ELSE IF b.k = "fin" THEN a
    ELSE IF a.k = b.k THEN a
    ELSE NaN

\* a * b, for floats without irrational part
FMul(a, b) ==
    IF a.k = "nan" \/ b.k = "nan" THEN NaN
    ELSE IF a.k = "fin" /\ b.k = "fin" THEN Fin(RMul(a.q, b.q))
    ELSE IF Sign(a) * Sign(b) = 0 THEN NaN
    ELSE IF Sign(a) * Sign(b) > 0 THEN PosInf
    ELSE NegInf

\* a / b with numpy's float64 rules (x/0 is inf or nan, never an exception),
\* for floats without irrational part
FDiv(a, b) ==
    IF a.k = "nan" \/ b.k = "nan" THEN NaN
    ELSE IF a.k = "fin" /\ b.k = "fin" THEN
        IF b.q[1] # 0 THEN Fin(RDiv(a.q, b.q))
        ELSE IF a.q[1] = 0 THEN NaN
        ELSE IF a.q[1] > 0 THEN PosInf ELSE NegInf
    ELSE IF a.k # "fin" /\ b.k # "fin" THEN NaN
    ELSE IF b.k # "fin" THEN FInt(0)
    ELSE IF Sign(a) * (IF b.q[1] < 0 THEN -1 ELSE 1) > 0 THEN PosInf
    ELSE NegInf

RECURSIVE IntPow(_, _)
IntPow(b, n) == IF n = 0 THEN 1 ELSE b * IntPow(b, n - 1)

\* numpy.exp
FExp(v) ==
    IF v.k = "nan" THEN NaN
    ELSE IF v.k = "inf" THEN PosInf
    ELSE IF v.k = "-inf" THEN FInt(0)
    ELSE IF v.c # 0 THEN
        \* exp(log(r)) = r and exp(-log(r)) = 1/r; no other irrational
        \* argument reaches exp from Density or LogDensity components
        IF v.c > 0 THEN Fin(v.r) ELSE Fin(RDiv(RInt(1), v.r))
    ELSE LET n == v.q[1] \div v.q[2]
         IN  IF n > ExpRange THEN PosInf
             ELSE IF n < -ExpRange THEN FInt(0)
             ELSE IF n >= 0 THEN Fin(<<IntPow(Base, n), 1>>)
             ELSE Fin(<<1, IntPow(Base, -n)>>)

\* whether q = Base^k for an integer k, and that k
RECURSIVE IsPower(_)
IsPower(q) ==
    IF q = <<1, 1>> THEN TRUE
    ELSE IF q[2] = 1 /\ q[1] > 0 /\ q[1] % Base = 0
        THEN IsPower(<<q[1] \div Base, 1>>)
    ELSE IF q[1] = 1 /\ q[2] % Base = 0
        THEN IsPower(<<1, q[2] \div Base>>)
    ELSE FALSE

RECURSIVE LogBase(_)
LogBase(q) ==
    IF q = <<1, 1>> THEN 0
    ELSE IF q[2] = 1 THEN LogBase(<<q[1] \div Base, 1>>) + 1
    ELSE LogBase(<<1, q[2] \div Base>>) - 1

\* numpy.log: log(0) = -inf and log(negative) = nan, with a warning and
\* no exception
FLog(v) ==
    IF v.k = "nan" \/ v.k = "-inf" THEN NaN
    ELSE IF v.k = "inf" THEN PosInf
    ELSE IF v.q[1] < 0 THEN NaN
    ELSE IF v.q[1] = 0 THEN NegInf
    ELSE IF IsPower(v.q) THEN FInt(LogBase(v.q))
    ELSE FSym(RZero, 1, "log", v.q)

\* ------------------------------------------------------------------------
\* cheby.py
\* ------------------------------------------------------------------------
\* for c_j in c[:0:-1]: d, dd = y*d + (c_j - dd), d
\* (j runs from the last coefficient down to the second, 1-based)
RECURSIVE Clenshaw(_, _, _, _, _)
Clenshaw(c, j, y, d, dd) ==
    IF j < 2 THEN <<d, dd>>
    ELSE Clenshaw(c, j - 1, y, RAdd(RMul(y, d), RSub(c[j], dd)), d)

\* return y*(0.5*d) + (0.5*c[0] - dd), for one element of t
ClenshawHalfWeight(c, ti) ==
    LET y   == RSub(RMul(RInt(4), ti), RInt(2))
        acc == Clenshaw(c, Len(c), y, RZero, RZero)
    IN  RAdd(RMul(y, RMul(RHalf, acc[1])), RSub(RMul(RHalf, c[1]), acc[2]))

\* a plausible slip: the constant term taken at full weight
ClenshawFullWeight(c, ti) ==
    LET y   == RSub(RMul(RInt(4), ti), RInt(2))
        acc == Clenshaw(c, Len(c), y, RZero, RZero)
    IN  RAdd(RMul(y, RMul(RHalf, acc[1])), RSub(c[1], acc[2]))

cheby_eval(c, ti) == ClenshawHalfWeight(c, ti)

\* ---- numbers a + b*sqrt(r), <<a, b, r>> with a, b rational ----
\* The twiddle factors of the 'interp' branch for n control values are
\* cosines and sines of multiples of pi/(2n); for n <= 3 they all lie in
\* the rationals extended by sqrt(Root(n)).
Root(n) == IF n = 3 THEN 3 ELSE 2
Surd(a, b, r) == <<a, b, r>>
SRat(q, r)    == <<q, RZero, r>>
\* a coordinate or value given as a plain rational <<num, den>> is read as
\* the same number with no sqrt part
ToSurd(x, r)  == IF Len(x) = 2 THEN SRat(x, r) ELSE x
SAdd(u, v) ==
    CHOOSE q \in {<<RAdd(x[1], y[1]), RAdd(x[2], y[2]), x[3]>> :
                     x \in {u}, y \in {v}} : TRUE
SNeg(u)    == CHOOSE q \in {<<RNeg(x[1]), RNeg(x[2]), x[3]>> : x \in {u}} : TRUE
SSub(u, v) == SAdd(u, SNeg(v))
SMul(u, v) ==
    CHOOSE q \in
        {<<RAdd(RMul(x[1], y[1]), RMul(RInt(x[3]), RMul(x[2], y[2]))),
           RAdd(RMul(x[1], y[2]), RMul(x[2], y[1])),
           x[3]>> : x \in {u}, y \in {v}} : TRUE
\* sign of a + b*sqrt(r): -1, 0 or 1
SSign(u) ==
    LET sgnA == IF u[1][1] > 0 THEN 1 ELSE IF u[1][1] < 0 THEN -1 ELSE 0
        sgnB == IF u[2][1] > 0 THEN 1 ELSE IF u[2][1] < 0 THEN -1 ELSE 0
        a2 == RMul(u[1], u[1])
        b2 == RMul(RInt(u[3]), RMul(u[2], u[2]))
    IN  IF sgnB = 0 THEN sgnA
        ELSE IF sgnA = 0 THEN sgnB
        ELSE IF sgnA = sgnB THEN sgnA
        ELSE IF RLt(b2, a2) THEN sgnA
        ELSE IF RLt(a2, b2) THEN sgnB
        ELSE 0
SLe(u, v) == SSign(SSub(u, v)) <= 0

\* cos(m*pi/(2n)) and sin(m*pi/(2n)) for n in 1..3
CosTable(n) ==
    LET r  == Root(n)
        z  == SRat(RZero, r)
        o  == SRat(RInt(1), r)
        h  == SRat(RHalf, r)
        s  == Surd(RZero, RHalf, r)      \* sqrt(r)/2
    IN  IF n = 1 THEN << o, z, SNeg(o), z >>
        ELSE IF n = 2 THEN
            << o, s, z, SNeg(s), SNeg(o), SNeg(s), z, s >>
        ELSE
            << o, s, h, z, SNeg(h), SNeg(s), SNeg(o), SNeg(s), SNeg(h), z, h, s >>
Cos(m, n) == CosTable(n)[(m % (4 * n)) + 1]
Sin(m, n) == Cos(m - n, n)

\* complex numbers <<re, im>> over the same field
CMul(u, v) ==
    << SSub(SMul(u[1], v[1]), SMul(u[2], v[2])),
       SAdd(SMul(u[1], v[2]), SMul(u[2], v[1])) >>
CAdd(u, v) == << SAdd(u[1], v[1]), SAdd(u[2], v[2]) >>
\* exp(1j * m*pi/(2n))
Cis(m, n) == << Cos(m, n), Sin(m, n) >>

\* w = exp((-0.5j*pi/n)*numpy.arange(n)), 1-based
Twiddle(n) == [j \in 1..n |-> Cis(-(j - 1), n)]

\* y = numpy.hstack((c[0::2], c[1::2][::-1])), 1-based
Interleave(c) ==
    LET n  == Len(c)
        ne == (n + 1) \div 2          \* len(c[0::2])
    IN  [m \in 1..n |-> IF m <= ne THEN c[2 * m - 1]
                        ELSE c[2 * (n - m + 1)]]

\* a plausible slip: the control values taken in their given order
NoInterleave(c) == c

hstack_even_odd(c) == Interleave(c)

\* numpy.fft.fft(y) for real y: F[j] = sum_m y[m]*exp(-2j*pi*j*m/n)
RECURSIVE FftSum(_, _, _, _)
FftSum(y, j, m, acc) ==
    IF m > Len(y) THEN acc
    ELSE FftSum(y, j, m + 1,
                CAdd(acc, CMul(<<SRat(RInt(y[m]), Root(Len(y))),
                                 SRat(RZero, Root(Len(y)))>>,
                               Cis(-4 * (j - 1) * (m - 1), Len(y)))))
fft(y) ==
    [j \in 1..Len(y) |->
        FftSum(y, j, 1, <<SRat(RZero, Root(Len(y))), SRat(RZero, Root(Len(y)))>>)]

\* c = (2./n) * real(fft(y)*w)
interp_coefficients(ctl) ==
    LET n == Len(ctl)
        F == fft(hstack_even_odd(ctl))
        w == Twiddle(n)
    IN  [j \in 1..n |->
            SMul(SRat(Rat(2, n), Root(n)), CMul(F[j], w[j])[1])]

\* the Clenshaw recursion of cheby_profile on numbers a + b*sqrt(r)
RECURSIVE SClenshaw(_, _, _, _, _)
SClenshaw(c, j, y, d, dd) ==
    IF j < 2 THEN <<d, dd>>
    ELSE SClenshaw(c, j - 1, y, SAdd(SMul(y, d), SSub(c[j], dd)), d)

\* return y*(0.5*d) + (0.5*c[0] - dd), for one element of t
SClenshawHalfWeight(c, ti) ==
    LET r   == c[1][3]
        y   == SSub(SMul(SRat(RInt(4), r), ti), SRat(RInt(2), r))
        acc == SClenshaw(c, Len(c), y, SRat(RZero, r), SRat(RZero, r))
        hf  == SRat(RHalf, r)
    IN  SAdd(SMul(y, SMul(hf, acc[1])), SSub(SMul(hf, c[1]), acc[2]))

\* a plausible slip: the coordinates handed back as they are
times_nothing(tt) == tt

\* return 0*t
zero_times(tt) == [i \in 1..Len(tt) |-> RMul(RZero, tt[i])]

\* cheby_profile(control, t, method).  An element of t is a rational
\* <<num, den>> or a number <<a, b, r>>; 'direct' is modelled on rational
\* coordinates and returns rationals, 'interp' returns numbers <<a, b, r>>.
cheby_profile(ctl, tt, m) ==
    IF Len(ctl) = 0
    THEN zero_times(tt)
    ELSE IF m = "interp"
    THEN CHOOSE p \in
            {[i \in 1..Len(tt) |->
                SClenshawHalfWeight(c, ToSurd(tt[i], Root(Len(ctl))))] :
             c \in {interp_coefficients(ctl)}} : TRUE
    ELSE LET c == [j \in 1..Len(ctl) |-> RInt(ctl[j])]
         IN  [i \in 1..Len(tt) |-> cheby_eval(c, tt[i])]

SeqsUpTo(S, n) == UNION {[1..k -> S] : k \in 0..n}

\* ---- the two layers that render a profile ----
NoLayer == [kind |-> "none"]
NoSlabs == [extended |-> FALSE]

\* t = Pz/thickness
Depths(Pz, thickness) == [i \in 1..Len(Pz) |-> RDiv(Pz[i], RInt(thickness))]

\* FreeformCheby.render: the two profiles go to slabs.extend as
\* cheby_profile returned them
FreeformCheby_render(self, rho, Pw, Pz) ==
    LET tt    == Depths(Pz, self.thickness)
        Prho  == cheby_profile(rho, tt, self.method)
        Pirho == cheby_profile(self.irho, tt, self.method)
    IN  [extended |-> TRUE, rho |-> Prho, irho |-> Pirho, w |-> Pw]

\* a plausible slip: the clipping left out
no_clip(v, lo, hi) == v

\* numpy.clip(vf, 0, 1), for one element
clip(v, lo, hi) ==
    IF SLe(v, SRat(RInt(lo), v[3])) THEN SRat(RInt(lo), v[3])
    ELSE IF SLe(SRat(RInt(hi), v[3]), v) THEN SRat(RInt(hi), v[3])
    ELSE v

\* ChebyVF.render, M = Mr + 1j*Mi and S = Sr + 1j*Si being <<re, im>>:
\*   vf = numpy.clip(vf,0,1); P = M*vf + S*(1-vf); Pr, Pi = real(P), imag(P)
ChebyVF_render(self, vfc, Pw, Pz) ==
    LET tt   == Depths(Pz, self.thickness)
        r    == Root(Len(vfc))
        raw  == cheby_profile(vfc, tt, self.method)
        vf   == [i \in 1..Len(raw) |-> clip(ToSurd(raw[i], r), 0, 1)]
        mix(m, sv) ==
            [i \in 1..Len(vf) |->
                SAdd(SMul(SRat(RInt(m), r), vf[i]),
                     SMul(SRat(RInt(sv), r), SSub(SRat(RInt(1), r), vf[i])))]
    IN  [extended |-> TRUE, vf |-> vf,
         rho  |-> mix(self.material[1], self.solvent[1]),
         irho |-> mix(self.material[2], self.solvent[2]),
         w    |-> Pw]

\* ------------------------------------------------------------------------
\* dream/model.py: Density, LogDensity
\* ------------------------------------------------------------------------
None == "None"
NoInstance == [cls |-> "NoInstance"]

\* a parameter vector is a tuple of entries from XVals; user functions of
\* Density and LogDensity are tables over the first coordinate
XVals == {0, 1}
ParamVectors(dim) == [1..dim -> XVals]

\* self.f(x)
Apply(f, x) == f[x[1]]

\* Density.__init__
Density(f, bounds, labels) ==
    [cls |-> "Density", f |-> f, bounds |-> bounds, labels |-> labels]

\* Density.nllf: return -log(self.f(x))
Density_nllf(self, x) == FNeg(FLog(Apply(self.f, x)))

\* LogDensity.__init__
LogDensity(f, bounds, labels) ==
    [cls |-> "LogDensity", f |-> f, bounds |-> bounds, labels |-> labels]

\* LogDensity.nllf: return -self.f(x)
LogDensity_nllf(self, x) == FNeg(Apply(self.f, x))

\* M.nllf(x, RNG) for a model M that is a Density or a LogDensity
Component_nllf(M, x) ==
    IF M.cls = "Density" THEN Density_nllf(M, x) ELSE LogDensity_nllf(M, x)

\* ------------------------------------------------------------------------
\* dream/model.py: Simulation
\* ------------------------------------------------------------------------
\* data is an array of integers or None
NoData      == [none |-> TRUE, v |-> <<>>]
Data(v)     == [none |-> FALSE, v |-> v]

\* a simulation function: f(x)[i] = slope*x[0] + i, an array of n values
SimFunc(slope, n) == [slope |-> slope, n |-> n]
SimApply(f, x) == [i \in 1..f.n |-> f.slope * x[1] + (i - 1)]

\* exppow.exppow_pars(gamma): the scale cB of the exponential power
\* density; the weight wB stays symbolic inside the "log_wB_sigma" part.
\* gamma = 0 is the normal density (cB = 1/2), gamma = 1 the double
\* exponential (cB = 1).
exppow_pars(gamma) ==
    [cB |-> IF gamma = 0 THEN RHalf ELSE RInt(1), wB |-> "wB"]

\* numpy.ones_like(data): one element per data point; ones_like(None) is a
\* 0-d array, a single element
OnesLikeCount(data) == IF data.none THEN 1 ELSE Len(data.v)

\* Simulation.__init__: no check of data; the three derived fields are
\* computed here
Simulation(f, bounds, data, sigma, gamma, labels) ==
    [cls |-> "Simulation", f |-> f, bounds |-> bounds, labels |-> labels,
     data |-> data, sigma |-> sigma, gamma |-> gamma,
     offset |-> FSym(RZero, OnesLikeCount(data), "log_wB_sigma",
                     <<gamma, sigma>>),
     cB |-> exppow_pars(gamma).cB,
     pow |-> Rat(2, 1 + gamma)]

RECURSIVE RPow(_, _)
RPow(a, n) == IF n = 0 THEN RInt(1) ELSE RMul(a, RPow(a, n - 1))

\* a plausible slip: the absolute value left out
NoAbs(a) == a

RAbs(a) == <<Abs(a[1]), a[2]>>

\* sum of the first n entries of a sequence of rationals, and of all
RECURSIVE RSumTo(_, _)
RSumTo(seq, n) == IF n = 0 THEN RZero ELSE RAdd(RSumTo(seq, n - 1), seq[n])
RSum(seq) == RSumTo(seq, Len(seq))

\* Simulation.nllf:
\*   err = self.f(x) - self.data           (TypeError when data is None)
\*   log_p = self._offset - sum(self._cB * abs(err/self.sigma)**self._pow)
\*   return -log_p
Simulation_nllf(self, x) ==
    LET fx   == SimApply(self.f, x)
        err  == [i \in 1..Len(fx) |-> RInt(fx[i] - self.data.v[i])]
        term == [i \in 1..Len(fx) |->
                    RMul(self.cB,
                         RPow(RAbs(RDiv(err[i], RInt(self.sigma))),
                              self.pow[1]))]
        logp == FAdd(self.offset, FNeg(Fin(RSum(term))))
    IN  FNeg(logp)

\* ------------------------------------------------------------------------
\* dream/model.py: MVNormal (matrices are tuples of rows of rationals)
\* ------------------------------------------------------------------------
IsSquare(n) == \E k \in 0..n : k * k = n
ISqrt(n)    == CHOOSE k \in 0..n : k * k = n
RIsSquare(q) == q[1] >= 0 /\ IsSquare(q[1]) /\ IsSquare(q[2])
RSqrt(q)     == <<ISqrt(q[1]), ISqrt(q[2])>>

ZeroMatrix(n) == [i \in 1..n |-> [j \in 1..n |-> RZero]]

\* numpy.linalg.cholesky, column by column on the lower triangle:
\*   L[j][j] = sqrt(A[j][j] - sum_k<j L[j][k]^2), LinAlgError unless > 0
\*   L[i][j] = (A[i][j] - sum_k<j L[i][k]*L[j][k]) / L[j][j]     (i > j)
\* status "irrational" marks a factor with an irrational entry, which the
\* rational arithmetic of the model cannot hold
RECURSIVE CholFrom(_, _, _)
CholFrom(A, L, j) ==
    LET n == Len(A)
    IN  IF j > n THEN [status |-> "ok", r |-> L]
        ELSE
        LET s == RSub(A[j][j],
                      RSum([k \in 1..(j - 1) |-> RMul(L[j][k], L[j][k])]))
        IN  IF RLe(s, RZero) THEN [status |-> "LinAlgError", r |-> L]
            ELSE IF ~RIsSquare(s) THEN [status |-> "irrational", r |-> L]
            ELSE
            LET d  == RSqrt(s)
                L2 == [i \in 1..n |-> [c \in 1..n |->
                        IF c = j /\ i = j THEN d
                        ELSE IF c = j /\ i > j THEN
                            RDiv(RSub(A[i][j],
                                      RSum([k \in 1..(j - 1) |->
                                              RMul(L[i][k], L[j][k])])),
                                 d)
                        ELSE L[i][c]]]
            IN  CholFrom(A, L2, j + 1)

cholesky(A) == CholFrom(A, ZeroMatrix(Len(A)), 1)

\* numpy.linalg.inv of a lower triangular matrix, row by row:
\*   X[i][j] = (delta_ij - sum_{j<=k<i} L[i][k]*X[k][j]) / L[i][i]
RECURSIVE InvFrom(_, _, _)
InvFrom(L, X, i) ==
    LET n == Len(L)
    IN  IF i > n THEN X
        ELSE
        LET X2 == [a \in 1..n |-> [j \in 1..n |->
                    IF a # i THEN X[a][j]
                    ELSE IF j > i THEN RZero
                    ELSE RDiv(RSub(IF i = j THEN RInt(1) ELSE RZero,
                                   RSum([k \in 1..(i - j) |->
                                           RMul(L[i][j + k - 1],
                                                X[j + k - 1][j])])),
                              L[i][i])]]
        IN  InvFrom(L, X2, i + 1)

inv(L) == InvFrom(L, ZeroMatrix(Len(L)), 1)

\* sum(diag(r))
SumDiag(r) == RSum([i \in 1..Len(r) |-> r[i][i]])

\* dot(v, M) for a row vector v
dot(v, M) == [j \in 1..Len(v) |-> RSum([i \in 1..Len(v) |-> RMul(v[i], M[i][j])])]

\* MVNormal.__init__ past the Cholesky step:
\*   self._rinv = inv(r); self._C = 0.5*len(mu)*log(2*pi) + sum(diag(r))
MVNormal(mu, sigma) ==
    LET r == cholesky(sigma).r
    IN  [cls |-> "MVNormal", mu |-> mu, sigma |-> sigma,
         rinv |-> inv(r),
         C |-> FSym(SumDiag(r), Len(mu), "half_log_2pi", RZero)]

\* a plausible slip: the LinAlgError swallowed, leaving the derived fields
\* unset until they are needed
MVNormal_init_deferred(mu, sigma) ==
    IF cholesky(sigma).status = "ok"
    THEN [exc |-> "none", self |-> MVNormal(mu, sigma)]
    ELSE [exc |-> "none",
          self |-> [cls |-> "MVNormal", mu |-> mu, sigma |-> sigma,
                    rinv |-> ZeroMatrix(Len(sigma)), C |-> NaN]]

\* MVNormal.__init__: [exc, self]; r = cholesky(sigma) raises LinAlgError
\* for a sigma that is not positive definite, and nothing catches it
MVNormal_init(mu, sigma) ==
    IF cholesky(sigma).status = "ok"
    THEN [exc |-> "none", self |-> MVNormal(mu, sigma)]
    ELSE [exc |-> "LinAlgError", self |-> NoInstance]

\* sum(dot((x-mu), rinv)**2)
SquaredDistance(self, x) ==
    LET v == [i \in 1..Len(x) |-> RInt(x[i] - self.mu[i])]
        w == dot(v, self.rinv)
    IN  RSum([j \in 1..Len(w) |-> RMul(w[j], w[j])])

\* a plausible slip: the square left out
UnsquaredDistance(self, x) ==
    LET v == [i \in 1..Len(x) |-> RInt(x[i] - self.mu[i])]
        w == dot(v, self.rinv)
    IN  RSum(w)

Mahalanobis(self, x) == SquaredDistance(self, x)

\* MVNormal.nllf: y = C + 0.5*sum(dot((x-mu), rinv)**2)
MVNormal_nllf(self, x) ==
    FAdd(self.C, Fin(RMul(RHalf, Mahalanobis(self, x))))

\* ------------------------------------------------------------------------
\* dream/model.py: Mixture
\* ------------------------------------------------------------------------
\* An argument of Mixture(*args) is <<kind, index>>:
\*   <<"model", i>>  the model CompModels[i] (it has an nllf attribute)
\*   <<"float", i>>  the Python float Scalars[i]
\*   <<"str", 1>>    a string (numpy.isscalar is True for strings)
\*   <<"list", 1>>   a list (no nllf attribute, not a scalar)
CompFuncs ==
    << [v \in XVals |-> FInt(-v)],
       [v \in XVals |-> FInt(-(ExpRange + 1) * v)],
       [v \in XVals |-> IF v = 0 THEN FInt(0) ELSE NegInf] >>
CompModels == [i \in 1..Len(CompFuncs) |-> LogDensity(CompFuncs[i], None, None)]
Scalars    == << FInt(1), FInt(2), FInt(0), PosInf >>

ArgUniverse ==
    {<<"model", i>> : i \in 1..Len(CompModels)}
        \cup {<<"float", i>> : i \in 1..Len(Scalars)}
        \cup {<<"str", 1>>, <<"list", 1>>}

\* hasattr(M, 'nllf')
hasattr_nllf(o) == o[1] = "model"
\* numpy.isscalar(w)
isscalar(o) == o[1] \in {"float", "str"}

\* args[::2] and args[1::2]
EvenSlice(args) == [i \in 1..((Len(args) + 1) \div 2) |-> args[2 * i - 1]]
OddSlice(args)  == [i \in 1..(Len(args) \div 2) |-> args[2 * i]]

\* the argument check of Mixture.__init__ (True: raise TypeError)
MixtureRejects(args) ==
    \/ Len(args) % 2 # 0
    \/ ~(\A i \in 1..Len(EvenSlice(args)) : hasattr_nllf(EvenSlice(args)[i]))
    \/ ~(\A i \in 1..Len(OddSlice(args)) : isscalar(OddSlice(args)[i]))

\* a plausible slip: the length test left out
MixtureRejectsNoLength(args) ==
    \/ ~(\A i \in 1..Len(EvenSlice(args)) : hasattr_nllf(EvenSlice(args)[i]))
    \/ ~(\A i \in 1..Len(OddSlice(args)) : isscalar(OddSlice(args)[i]))

Mixture_check(args) == MixtureRejects(args)

\* zip(models, weights): a list under Python 2, a one-shot iterator under
\* Python 3; items are the elements not yet handed out
zip(models, weights, lazy) ==
    [lazy  |-> lazy,
     items |-> [i \in 1..(IF Len(models) < Len(weights) THEN Len(models)
                          ELSE Len(weights)) |->
                  [M |-> CompModels[models[i][2]],
                   w |-> Scalars[weights[i][2]]]]]

\* what a for loop over z yields, and z after the loop
Iterate(z)   == z.items
Exhausted(z) == IF z.lazy THEN [z EXCEPT !.items = <<>>] ELSE z

\* sum of a sequence of floats, added left to right from 0
RECURSIVE FSumTo(_, _)
FSumTo(seq, n) == IF n = 0 THEN FInt(0) ELSE FAdd(FSumTo(seq, n - 1), seq[n])
FSum(seq) == FSumTo(seq, Len(seq))

\* Mixture.__init__: [exc, self]
\*   sum(w for w in weights) is Python's sum from 0; adding a string to it
\*   raises TypeError
Mixture_init(args, lazy) ==
    LET models  == EvenSlice(args)
        weights == OddSlice(args)
    IN  IF Mixture_check(args) THEN [exc |-> "TypeError", self |-> NoInstance]
        ELSE IF \E i \in 1..Len(weights) : weights[i][1] = "str"
            THEN [exc |-> "TypeError", self |-> NoInstance]
        ELSE [exc |-> "none",
              self |-> [cls    |-> "Mixture",
                        pairs  |-> zip(models, weights, lazy),
                        weight |-> FSum([i \in 1..Len(weights) |->
                                           Scalars[weights[i][2]]])]]

\* Mixture.nllf:
\*   p = [w*exp(-M.nllf(x,RNG)) for M,w in self.pairs]
\*   return -log( sum(p)/self.weight )
Mixture_nllf(self, x) ==
    LET items == Iterate(self.pairs)
        p     == [i \in 1..Len(items) |->
                    FMul(items[i].w,
                         FExp(FNeg(Component_nllf(items[i].M, x))))]
    IN  FNeg(FLog(FDiv(FSum(p), self.weight)))

\* ------------------------------------------------------------------------
\* dream/model.py: MCMCModel.nllf dispatch and log_density
\* ------------------------------------------------------------------------
\* self.nllf(x, RNG): [exc, val, self], self being the instance afterwards
NoValue == FRec("unset", RZero, 0, "none", RZero)

\* the exception self.nllf(x, RNG) ends with, "none" when it returns:
\* a Simulation without data fails on self.f(x) - self.data
nllf_exc(self) ==
    IF self.cls = "Simulation" /\ self.data.none THEN "TypeError" ELSE "none"
\* the instance after self.nllf(x, RNG): a Mixture has iterated self.pairs
nllf_self(self) ==
    IF self.cls = "Mixture"
    THEN [self EXCEPT !.pairs = Exhausted(self.pairs)]
    ELSE self

nllf(self, x) ==
    [exc  |-> nllf_exc(self),
     val  |-> CASE nllf_exc(self) # "none" -> NoValue
                [] self.cls = "Density" -> Density_nllf(self, x)
                [] self.cls = "LogDensity" -> LogDensity_nllf(self, x)
                [] self.cls = "Simulation" -> Simulation_nllf(self, x)
                [] self.cls = "MVNormal" -> MVNormal_nllf(self, x)
                [] self.cls = "Mixture" -> Mixture_nllf(self, x),
     self |-> nllf_self(self)]

\* MCMCModel.log_density: array([-self.nllf(x, RNG) for x in pop]),
\* the entries evaluated one after the other in the order of pop
RECURSIVE LogDensityFrom(_, _, _, _)
LogDensityFrom(self, pop, i, acc) ==
    IF i > Len(pop) THEN [exc |-> "none", val |-> acc, self |-> self]
    ELSE CHOOSE out \in
            {IF r.exc # "none"
                THEN [exc |-> r.exc, val |-> <<>>, self |-> r.self]
                ELSE LogDensityFrom(r.self, pop, i + 1,
                                    Append(acc, FNeg(r.val))) :
             r \in {nllf(self, pop[i])}} : TRUE

log_density(self, pop) == LogDensityFrom(self, pop, 1, <<>>)

\* ---- the RNG argument ----
\* RNG=numpy.random is the default of every nllf and log_density; a caller
\* passes a generator of its own or leaves the argument out
RNGs == {"numpy.random", "rng"}

\* a plausible slip: the argument left out of the inner call, so that the
\* callee falls back on its default
rng_left_out(RNG) == "numpy.random"

\* the RNG argument of self.nllf(x, RNG) in MCMCModel.log_density
log_density_rng(RNG) == RNG
\* the RNG argument of M.nllf(x,RNG) in Mixture.nllf
Mixture_nllf_rng(RNG) == RNG

\* the nllf bodies entered by self.nllf(x, RNG), each as [cls, rng]; no body
\* reads or stores its RNG
nllf_received(self, x, RNG) ==
    IF self.cls = "Mixture"
    THEN <<[cls |-> "Mixture", rng |-> RNG]>>
            \o [i \in 1..Len(Iterate(self.pairs)) |->
                    [cls |-> Iterate(self.pairs)[i].M.cls,
                     rng |-> Mixture_nllf_rng(RNG)]]
    ELSE <<[cls |-> self.cls, rng |-> RNG]>>

\* the same for self.log_density(pop, RNG), up to the entry that raises
RECURSIVE LogDensityReceived(_, _, _, _, _)
LogDensityReceived(self, pop, RNG, i, acc) ==
    IF i > Len(pop) THEN acc
    ELSE IF nllf_exc(self) # "none"
    THEN acc \o nllf_received(self, pop[i], log_density_rng(RNG))
    ELSE LogDensityReceived(nllf_self(self), pop, RNG, i + 1,
            acc \o nllf_received(self, pop[i], log_density_rng(RNG)))

\* the dimension of the parameter vectors an instance is called with
DimOf(self) == IF self.cls = "MVNormal" THEN Len(self.mu) ELSE 1

\* ------------------------------------------------------------------------
\* Inputs of the model specification
\* ------------------------------------------------------------------------
\* values a user density returns: negative, zero, one, 1/Base
DensityValues    == {FInt(-1), FInt(0), FInt(1), Fin(<<1, Base>>)}
\* values a user log density returns
LogDensityValues == {NegInf, FInt(-(ExpRange + 1)), FInt(-1), FInt(0)}

DataSet  == {NoData} \cup {Data(v) : v \in UNION {[1..n -> 0..1] : n \in 1..MaxData}}
SigmaSet == 1..MaxSigma
GammaSet == {0, 1}

\* the dimensions an MVNormal is built in
Dims == {1, 2}

\* covariance matrices: L*L^T - shift*I for lower triangular L, kept when
\* not positive definite or when the Cholesky factor is rational
LowerTri(n) ==
    {L \in [1..n -> [1..n -> 0..LMax]] :
        \A i, j \in 1..n : /\ (j > i => L[i][j] = 0)
                           /\ (j < i => L[i][j] <= 1)}
Gram(L, shift) ==
    [i \in 1..Len(L) |-> [j \in 1..Len(L) |->
        RInt(RSum([k \in 1..Len(L) |-> RInt(L[i][k] * L[j][k])])[1]
             - (IF i = j THEN shift ELSE 0))]]
\* the matrix as numpy.linalg.cholesky reads it is its lower triangle; the
\* upper triangle of the argument is never looked at
LowerOnly(A) ==
    [i \in 1..Len(A) |-> [j \in 1..Len(A) |->
        IF j > i THEN RZero ELSE A[i][j]]]
\* symmetric matrices, definite or not, and their lower triangles alone;
\* those whose factor has an irrational entry are left out
Covariances(n) ==
    LET sym == {A \in {Gram(L, shift) : L \in LowerTri(n), shift \in 0..1} :
                   cholesky(A).status # "irrational"}
    IN  sym \cup {LowerOnly(A) : A \in sym}

ModelIdle ==
    /\ inst = NoInstance
    /\ built = NoInstance
    /\ ctor = [cls |-> "none"]
    /\ op = "none"
    /\ raised = "none"
    /\ lastX = <<>>
    /\ lastPop = <<>>
    /\ ret = NoValue
    /\ retPop = <<>>
    /\ rng = "none"
    /\ received = <<>>

\* self.model before set_model has assigned it
NoModel == [set |-> FALSE, parameters |-> 0]

\* self.fit_thread = NoThread; the FitThread objects are numbered from 1
NoThread == 0

\* the flags init_menubar and init_toolbar leave: every fit item greyed out
AllDisabled ==
    [fit_menu_start |-> FALSE, fit_menu_stop |-> FALSE,
     fit_menu_options |-> FALSE, tb_start |-> FALSE, tb_stop |-> FALSE]

\* the status bar as init_statusbar leaves it: no text written yet (fields
\* 0 and 3 are the ones the fit handlers write)
NoStatus == [f0 |-> "", f3 |-> ""]

GuiIdle ==
    /\ model = NoModel
    /\ console = FALSE
    /\ enabled = AllDisabled
    /\ fit_thread = NoThread
    /\ live = {}
    /\ created = 0
    /\ sb = NoStatus
    /\ event = "none"
    /\ guiRaised = "none"
    /\ logged = FALSE

ChebyIdle ==
    /\ control = <<>>
    /\ t = <<>>
    /\ method = "direct"
    /\ profile = <<>>
    /\ chebyPc = "idle"
    /\ caller = "none"
    /\ layer = NoLayer
    /\ slabs = NoSlabs

\* the common end of every constructor call
Constructed(c, exc, self) ==
    /\ ctor' = c
    /\ op' = "init"
    /\ raised' = exc
    /\ inst' = self
    /\ built' = self
    /\ UNCHANGED <<lastX, lastPop, ret, retPop, rng, received, chebyVars, guiVars>>

\* M = Density(f)
NewDensity ==
    /\ op = "none"
    /\ \E f \in [XVals -> DensityValues] :
        Constructed([cls |-> "Density", f |-> f], "none",
                    Density(f, None, None))

\* M = LogDensity(f)
NewLogDensity ==
    /\ op = "none"
    /\ \E f \in [XVals -> LogDensityValues] :
        Constructed([cls |-> "LogDensity", f |-> f], "none",
                    LogDensity(f, None, None))

\* M = Simulation(f, data=data, sigma=sigma, gamma=gamma); data defaults to
\* None and __init__ raises nothing for it
NewSimulation ==
    /\ op = "none"
    /\ \E data \in DataSet, sigma \in SigmaSet, gamma \in GammaSet,
       slope \in 0..1 :
        LET f == SimFunc(slope, OnesLikeCount(data))
        IN  Constructed([cls |-> "Simulation", data |-> data,
                         sigma |-> sigma, gamma |-> gamma],
                        "none",
                        Simulation(f, None, data, sigma, gamma, None))

\* M = MVNormal(mu, sigma); cholesky raises LinAlgError inside __init__
NewMVNormal ==
    /\ op = "none"
    /\ \E n \in Dims :
        \E mu \in ParamVectors(n), sigma \in Covariances(n) :
            \E r \in {MVNormal_init(mu, sigma)} :
                Constructed([cls |-> "MVNormal", mu |-> mu, sigma |-> sigma],
                            r.exc, r.self)

\* M = Mixture(*args)
NewMixture ==
    /\ op = "none"
    /\ \E args \in SeqsUpTo(ArgUniverse, MaxArgs), lazy \in BOOLEAN :
        \E r \in {Mixture_init(args, lazy)} :
            Constructed([cls |-> "Mixture", args |-> args], r.exc, r.self)

\* M.nllf(x, RNG)
CallNllf ==
    /\ op # "none"
    /\ inst # NoInstance
    /\ \E x \in ParamVectors(DimOf(inst)) :
        \E r \in {nllf(inst, x)} : \E g \in RNGs :
            /\ op' = "nllf"
            /\ lastX' = x
            /\ raised' = r.exc
            /\ ret' = r.val
            /\ inst' = r.self
            /\ rng' = g
            /\ received' = nllf_received(inst, x, g)
    /\ lastPop' = <<>>
    /\ retPop' = <<>>
    /\ UNCHANGED <<built, ctor, chebyVars, guiVars>>

\* the populations an instance is called with: up to MaxPop parameter
\* vectors, one fewer for vectors of dimension 2
Populations(self) ==
    SeqsUpTo(ParamVectors(DimOf(self)),
             IF DimOf(self) = 1 THEN MaxPop ELSE MaxPop - 1)

\* M.log_density(pop, RNG)
CallLogDensity ==
    /\ op # "none"
    /\ inst # NoInstance
    /\ \E pop \in Populations(inst) :
        \E r \in {log_density(inst, pop)} : \E g \in RNGs :
            /\ op' = "log_density"
            /\ lastPop' = pop
            /\ raised' = r.exc
            /\ retPop' = r.val
            /\ inst' = r.self
            /\ rng' = g
            /\ received' = LogDensityReceived(inst, pop, g, 1, <<>>)
    /\ lastX' = <<>>
    /\ ret' = NoValue
    /\ UNCHANGED <<built, ctor, chebyVars, guiVars>>

ModelInit == ModelIdle /\ ChebyIdle /\ GuiIdle

ModelNext ==
    \/ NewDensity
    \/ NewLogDensity
    \/ NewSimulation
    \/ NewMVNormal
    \/ NewMixture
    \/ CallNllf
    \/ CallLogDensity

SpecModel == ModelInit /\ [][ModelNext]_vars


Controls == SeqsUpTo((-CMax)..CMax, MaxOrder)
Grid     == {Rat(k, TDen) : k \in (-TOver)..(TDen + TOver)}
Coords   == SeqsUpTo(Grid, MaxSlabs)

\* 'interp': control sequences of the lengths the twiddle table covers, and
\* coordinates on the grid or at the control points
\*   z_k/L = (cos(pi*(k-0.5)/N)+1)/2, k in 1..N
InterpOrders   == {0, 1, 2, 3}
InterpControls == {c \in Controls : Len(c) \in InterpOrders}
Node(k, n) ==
    SMul(SRat(RHalf, Root(n)), SAdd(Cos(2 * k - 1, n), SRat(RInt(1), Root(n))))
InterpCoords(n) ==
    IF n = 0 THEN Coords
    ELSE SeqsUpTo({ToSurd(g, Root(n)) : g \in Grid}
                      \cup {Node(k, n) : k \in 1..n}, MaxSlabs)

\* the layers rendered: thickness, and the microslabs handed back by
\* slabs.microslabs(thickness), widths Pw and depths Pz inside the layer
Thicknesses == {1, 2}
SlabDepths(thickness) ==
    SeqsUpTo({Rat(k * thickness, TDen) : k \in 0..TDen}, MaxSlabs)
SlabWidths(thickness, n) == [i \in 1..n |-> Rat(thickness, n)]
IrhoControls == {<<>>, <<0, 1>>}
Materials    == {<<2, 1>>}
Solvents     == {<<-1, 0>>}
FreeformLayers ==
    {[kind |-> "FreeformCheby", thickness |-> th, method |-> m, irho |-> ic,
      Pz |-> Pz, Pw |-> SlabWidths(th, Len(Pz))] :
        th \in Thicknesses, m \in {"direct", "interp"}, ic \in IrhoControls,
        Pz \in UNION {SlabDepths(h) : h \in Thicknesses}}
VFLayers ==
    {[kind |-> "ChebyVF", thickness |-> th, method |-> m, material |-> ma,
      solvent |-> so, Pz |-> Pz, Pw |-> SlabWidths(th, Len(Pz))] :
        th \in Thicknesses, m \in {"direct", "interp"}, ma \in Materials,
        so \in Solvents, Pz \in UNION {SlabDepths(h) : h \in Thicknesses}}

ChebyInit ==
    /\ caller \in {"cheby_profile", "FreeformCheby", "ChebyVF"}
    /\ method \in {"direct", "interp"}
    /\ control \in (IF caller = "cheby_profile" /\ method = "direct"
                     THEN Controls ELSE InterpControls)
    /\ layer \in (IF caller = "cheby_profile" THEN {NoLayer}
                   ELSE IF caller = "FreeformCheby"
                   THEN {l \in FreeformLayers :
                            l.method = method /\ l.Pz \in SlabDepths(l.thickness)}
                   ELSE {l \in VFLayers :
                            l.method = method /\ l.Pz \in SlabDepths(l.thickness)})
    /\ t \in (IF caller # "cheby_profile" THEN {<<>>}
               ELSE IF method = "direct" THEN Coords
               ELSE InterpCoords(Len(control)))
    /\ profile = <<>>
    /\ slabs = NoSlabs
    /\ chebyPc = "ready"
    /\ ModelIdle
    /\ GuiIdle

\* one call: profile = cheby_profile(control, t, method)
CallChebyProfile ==
    /\ chebyPc = "ready"
    /\ caller = "cheby_profile"
    /\ profile' = cheby_profile(control, t, method)
    /\ chebyPc' = "returned"
    /\ UNCHANGED <<control, t, method, caller, layer, slabs, modelVars, guiVars>>

\* layer.render(probe, slabs) of a FreeformCheby whose rho parameters have
\* the values of control
RenderFreeformCheby ==
    /\ chebyPc = "ready"
    /\ caller = "FreeformCheby"
    /\ t' = Depths(layer.Pz, layer.thickness)
    /\ profile' = cheby_profile(control, Depths(layer.Pz, layer.thickness),
                                layer.method)
    /\ slabs' = FreeformCheby_render(layer, control, layer.Pw, layer.Pz)
    /\ chebyPc' = "returned"
    /\ UNCHANGED <<control, method, caller, layer, modelVars, guiVars>>

\* layer.render(probe, slabs) of a ChebyVF whose vf parameters have the
\* values of control
RenderChebyVF ==
    /\ chebyPc = "ready"
    /\ caller = "ChebyVF"
    /\ t' = Depths(layer.Pz, layer.thickness)
    /\ profile' = cheby_profile(control, Depths(layer.Pz, layer.thickness),
                                layer.method)
    /\ slabs' = ChebyVF_render(layer, control, layer.Pw, layer.Pz)
    /\ chebyPc' = "returned"
    /\ UNCHANGED <<control, method, caller, layer, modelVars, guiVars>>

ChebyNext ==
    \/ CallChebyProfile
    \/ RenderFreeformCheby
    \/ RenderChebyVF

SpecCheby == ChebyInit /\ [][ChebyNext]_vars

\* ------------------------------------------------------------------------
\* Reference: the Chebyshev polynomials of the first kind
\* ------------------------------------------------------------------------
RECURSIVE ChebT(_, _)
ChebT(j, x) ==
    IF j = 0 THEN RInt(1)
    ELSE IF j = 1 THEN x
    ELSE RSub(RMul(RMul(RInt(2), x), ChebT(j - 1, x)), ChebT(j - 2, x))

RECURSIVE SeriesFrom(_, _, _)
SeriesFrom(c, j, x) ==
    IF j > Len(c) THEN RZero
    ELSE RAdd(RMul(RInt(c[j]), ChebT(j - 1, x)), SeriesFrom(c, j + 1, x))

\* sum_j c_j T_j(2t-1), every coefficient at full weight
FullSeries(c, ti) == SeriesFrom(c, 1, RSub(RMul(RInt(2), ti), RInt(1)))

\* C1 (as stated): for method 'direct' every returned profile value equals
\* the full-weight Chebyshev series sum_j c_j*T_j(2t-1); c = [1,0,1] at
\* t = 0 gives 2.
C1_FullWeightSeries ==
    (chebyPc = "returned" /\ method = "direct" /\ Len(control) > 0) =>
        \A i \in 1..Len(t) : profile[i] = FullSeries(control, t[i])

\* C1 (amended): for method 'direct' every returned profile value equals
\* sum_j c_j*T_j(2t-1) - c_0/2, the series with c_0 at half weight;
\* c = [1,0,1] at t = 0 gives 3/2.
C1_HalfWeightSeries ==
    (chebyPc = "returned" /\ method = "direct" /\ Len(control) > 0) =>
        /\ Len(profile) = Len(t)
        /\ \A i \in 1..Len(t) :
              profile[i] = RSub(FullSeries(control, t[i]),
                                RMul(RHalf, RInt(control[1])))
        /\ (control = <<1, 0, 1>> /\ Len(t) > 0 /\ t[1] = RZero)
              => profile[1] = <<3, 2>>

C1_Witness ==
    /\ chebyPc = "returned"
    /\ method = "direct"
    /\ control = <<1, 0, 1>>
    /\ t = <<RZero>>
    /\ profile = <<(<<3, 2>>)>>

\* C11: cheby_profile([], t, method) returns zeros, one per element of t,
\* for every coordinate array t and for both methods; the 'interp'
\* coefficient derivation is not entered.
C11_EmptyControlGivesZeros ==
    (chebyPc = "returned" /\ control = <<>>) =>
        /\ Len(profile) = Len(t)
        /\ \A i \in 1..Len(t) : profile[i] = RZero

C11_Witness ==
    /\ chebyPc = "returned"
    /\ control = <<>>
    /\ method = "interp"
    /\ Len(t) = MaxSlabs
    /\ t[1] = RInt(1)
    /\ profile = [i \in 1..MaxSlabs |-> RZero]

\* C12: for method 'interp' with N control values, the profile evaluated at
\* the control point z_k/L = (cos(pi*(k-0.5)/N)+1)/2 equals the k-th control
\* value, for every k in 1..N and every control sequence.
C12_InterpReproducesControls ==
    (chebyPc = "returned" /\ method = "interp" /\ Len(control) > 0) =>
        /\ Len(profile) = Len(t)
        /\ \A i \in 1..Len(t) : \A k \in 1..Len(control) :
              t[i] = Node(k, Len(control))
                  => profile[i] = SRat(RInt(control[k]), Root(Len(control)))

C12_Witness ==
    /\ chebyPc = "returned"
    /\ method = "interp"
    /\ control = <<1, 0, -1>>
    /\ Len(t) = MaxSlabs
    /\ t[1] = Node(1, 3)
    /\ profile[1] = SRat(RInt(1), 3)

\* sum_j c_j T_j(2t-1) - c_0/2, nothing clamped; 0 for no coefficients
HalfSeries(c, ti) ==
    IF Len(c) = 0 THEN RZero
    ELSE RSub(FullSeries(c, ti), RMul(RHalf, RInt(c[1])))
\* v as a number <<a, b, r>> lies in [0, 1]
InUnitInterval(v) ==
    /\ SSign(v) >= 0
    /\ SSign(SSub(v, SRat(RInt(1), v[3]))) <= 0
\* v brought to the nearer end of [0, 1] when outside
Clamped(v) ==
    IF SSign(v) < 0 THEN SRat(RZero, v[3])
    ELSE IF SSign(SSub(v, SRat(RInt(1), v[3]))) > 0 THEN SRat(RInt(1), v[3])
    ELSE v

\* C16: cheby_profile returns the series unclamped; FreeformCheby.render
\* hands the values cheby_profile returned to slabs.extend as they are;
\* ChebyVF.render mixes with a volume fraction in [0, 1], the profile value
\* clamped to that interval, for every control vector and every depth.
C16_ClampOnlyInChebyVF ==
    (chebyPc = "returned" /\ caller \in {"FreeformCheby", "ChebyVF"}) =>
        /\ slabs.extended
        /\ Len(profile) = Len(layer.Pz)
        /\ method = "direct" =>
              \A i \in 1..Len(t) : profile[i] = HalfSeries(control, t[i])
        /\ caller = "FreeformCheby" =>
              /\ slabs.rho = profile
              /\ Len(slabs.irho) = Len(layer.Pz)
              /\ method = "direct" =>
                    \A i \in 1..Len(t) :
                        slabs.irho[i] = HalfSeries(layer.irho, t[i])
        /\ caller = "ChebyVF" =>
              /\ Len(slabs.vf) = Len(layer.Pz)
              /\ \A i \in 1..Len(slabs.vf) :
                    /\ InUnitInterval(slabs.vf[i])
                    /\ slabs.vf[i] =
                          Clamped(ToSurd(profile[i], Root(Len(control))))

C16_Witness ==
    /\ chebyPc = "returned"
    /\ caller = "ChebyVF"
    /\ method = "interp"
    /\ Len(control) = 3
    /\ Len(profile) = MaxSlabs
    /\ SSign(SSub(profile[1], SRat(RInt(1), 3))) > 0
    /\ slabs.vf[1] = SRat(RInt(1), 3)

\* ------------------------------------------------------------------------
\* Claims about dream/model.py
\* ------------------------------------------------------------------------
Evaluated == op \in {"nllf", "log_density"}

\* C2: for Mixture(M, 1.0), a single component of weight 1, every nllf(x)
\* returns M.nllf(x).
C2_SingleComponentIsIdentity ==
    (/\ built.cls = "Mixture"
     /\ Len(built.pairs.items) = 1
     /\ built.pairs.items[1].w = FInt(1)
     /\ op = "nllf")
        => /\ raised = "none"
           /\ ret = Component_nllf(built.pairs.items[1].M, lastX)

\* C3: evaluation leaves every field of the instance as __init__ set it, so
\* an nllf call returns what the instance as built returns for that x.
C3_ImmutableUnderEvaluation ==
    (built # NoInstance /\ Evaluated) =>
        /\ inst = built
        /\ (op = "nllf" /\ raised = "none") => ret = nllf(built, lastX).val

\* C4: log_density(pop) returns one result per entry of pop, in order, the
\* i-th equal to -nllf(pop[i]) of the model, whatever the other entries are.
C4_LogDensityPointwise ==
    (built # NoInstance /\ op = "log_density" /\ raised = "none") =>
        /\ Len(retPop) = Len(lastPop)
        /\ \A i \in 1..Len(lastPop) :
              retPop[i] = FNeg(nllf(built, lastPop[i]).val)

\* C5: whenever the user density f(x) is zero or negative, Density.nllf(x)
\* returns +infinity and raises nothing.
C5_NonPositiveDensityGivesInf ==
    (/\ built.cls = "Density"
     /\ op = "nllf"
     /\ Apply(built.f, lastX).k = "fin"
     /\ Apply(built.f, lastX).q[1] <= 0)
        => /\ raised = "none"
           /\ ret = PosInf

\* the three defects of an argument list that the claim C6 names
OddLength(args) == Len(args) % 2 = 1
ModelLacksNllf(args) ==
    \E i \in 1..Len(args) : i % 2 = 1 /\ args[i][1] # "model"
WeightNotScalar(args) ==
    \E i \in 1..Len(args) : i % 2 = 0 /\ args[i][1] \notin {"float", "str"}
WeightNotFiniteScalar(args) ==
    \E i \in 1..Len(args) :
        i % 2 = 0 /\ ~(args[i][1] = "float" /\ Scalars[args[i][2]].k = "fin")

\* C6 (as stated): Mixture(*args) fails with TypeError, and no instance
\* exists, whenever args has odd length, or an odd-position element has no
\* nllf, or an even-position element is not a finite scalar.
C6_RejectsNonFiniteWeights ==
    (/\ ctor.cls = "Mixture"
     /\ \/ OddLength(ctor.args)
        \/ ModelLacksNllf(ctor.args)
        \/ WeightNotFiniteScalar(ctor.args))
        => /\ built = NoInstance
           /\ inst = NoInstance
           /\ raised = "TypeError"

\* C6 (amended): Mixture(*args) fails with TypeError, and no instance
\* exists, whenever args has odd length, or an odd-position element has no
\* nllf, or an even-position element is not a scalar (numpy.isscalar);
\* infinite and nan weights are accepted.
C6_RejectsMalformedArgs ==
    (/\ ctor.cls = "Mixture"
     /\ \/ OddLength(ctor.args)
        \/ ModelLacksNllf(ctor.args)
        \/ WeightNotScalar(ctor.args))
        => /\ built = NoInstance
           /\ inst = NoInstance
           /\ raised = "TypeError"
           /\ op = "init"

C6_Witness ==
    /\ ctor.cls = "Mixture"
    /\ ctor.args = << <<"model", 1>>, <<"list", 1>> >>
    /\ op = "init"
    /\ built = NoInstance
    /\ raised = "TypeError"

\* C7: every constructed Mixture holds at least one (model, weight) pair
\* and has a weight sum strictly greater than 0.
C7_PairsAndPositiveWeight ==
    built.cls = "Mixture" =>
        /\ Len(built.pairs.items) >= 1
        /\ built.weight.k \in {"fin", "inf"}
        /\ Sign(built.weight) > 0

\* C8: Simulation(...) with data absent fails with ConfigurationError at
\* construction, before any nllf evaluation.
C8_MissingDataIsConfigurationError ==
    (ctor.cls = "Simulation" /\ ctor.data.none) =>
        /\ built = NoInstance
        /\ raised = "ConfigurationError"
        /\ op = "init"

\* positive definiteness of a symmetric matrix by Sylvester's criterion:
\* every leading principal minor is positive
RECURSIVE Det(_)
Det(A) ==
    IF Len(A) = 0 THEN RInt(1)
    ELSE IF Len(A) = 1 THEN A[1][1]
    ELSE RSum([c \in 1..Len(A) |->
            RMul(RMul(RInt(IF c % 2 = 1 THEN 1 ELSE -1), A[1][c]),
                 Det([i \in 1..(Len(A) - 1) |-> [j \in 1..(Len(A) - 1) |->
                        A[i + 1][IF j < c THEN j ELSE j + 1]]]))])
Leading(A, k) == [i \in 1..k |-> [j \in 1..k |-> A[i][j]]]
PositiveDefinite(A) == \A k \in 1..Len(A) : RLt(RZero, Det(Leading(A, k)))
Symmetric(A) == \A i, j \in 1..Len(A) : A[i][j] = A[j][i]

\* C9 (as stated): MVNormal(mu, sigma) with sigma not positive definite
\* fails at construction with ConfigurationError, never later.
C9_NotPDIsConfigurationError ==
    (/\ ctor.cls = "MVNormal"
     /\ ~(Symmetric(ctor.sigma) /\ PositiveDefinite(ctor.sigma))) =>
        /\ built = NoInstance
        /\ raised = "ConfigurationError"
        /\ op = "init"

\* C9 (amended): MVNormal(mu, sigma) with a symmetric sigma that is not
\* positive definite fails at construction with numpy's LinAlgError, raised
\* by the Cholesky step; no instance exists afterwards, so the failure is
\* never deferred to an nllf call, and no nllf or log_density call on an
\* MVNormal raises.
C9_NotPDRaisesLinAlgErrorAtInit ==
    ctor.cls = "MVNormal" =>
        /\ (Symmetric(ctor.sigma) /\ ~PositiveDefinite(ctor.sigma)) =>
              /\ built = NoInstance
              /\ inst = NoInstance
              /\ raised = "LinAlgError"
              /\ op = "init"
        /\ Evaluated => raised = "none"

C9_Witness ==
    /\ ctor.cls = "MVNormal"
    /\ Len(ctor.sigma) = 2
    /\ Symmetric(ctor.sigma)
    /\ ctor.sigma[1][1] = RInt(1)
    /\ ~PositiveDefinite(ctor.sigma)
    /\ op = "init"
    /\ built = NoInstance
    /\ raised = "LinAlgError"

\* a >= b for finite floats with the same irrational part
FGe(a, b) ==
    /\ a.k = "fin" /\ b.k = "fin"
    /\ a.c = b.c /\ a.tag = b.tag /\ a.r = b.r
    /\ RLe(b.q, a.q)

\* 0.5*dim*log(2*pi) + sum(diag(cholesky(sigma)))
NormConstant(mu, sigma) ==
    FSym(SumDiag(cholesky(sigma).r), Len(mu), "half_log_2pi", RZero)

\* C10: for every valid (mu, sigma), nllf(mu) equals
\* 0.5*dim*log(2*pi) + sum(diag(cholesky(sigma))), and nllf(x) >= nllf(mu)
\* for every x.
C10_MinimumAtMean ==
    (built.cls = "MVNormal" /\ op = "nllf") =>
        /\ raised = "none"
        /\ lastX = ctor.mu => ret = NormConstant(ctor.mu, ctor.sigma)
        /\ FGe(ret, NormConstant(ctor.mu, ctor.sigma))

C10_Witness ==
    /\ built.cls = "MVNormal"
    /\ op = "nllf"
    /\ Len(ctor.mu) = 2
    /\ lastX = ctor.mu
    /\ ret = NormConstant(ctor.mu, ctor.sigma)
    /\ \E i, j \in 1..2 : i # j /\ ctor.sigma[i][j] # RZero

\* err/sigma for each data point, err = f(x) - data
Residuals(self, x) ==
    [i \in 1..Len(self.data.v) |->
        Rat(SimApply(self.f, x)[i] - self.data.v[i], self.sigma)]
\* 0.5*sum((err/sigma)^2)
GaussianNllf(self, x) ==
    RMul(RHalf, RSum([i \in 1..Len(self.data.v) |->
                        RMul(Residuals(self, x)[i], Residuals(self, x)[i])]))
\* sum(|err|/sigma)
LaplaceNllf(self, x) ==
    RSum([i \in 1..Len(self.data.v) |->
            IF RLt(Residuals(self, x)[i], RZero)
            THEN RNeg(Residuals(self, x)[i]) ELSE Residuals(self, x)[i]])

C14_RngThreaded ==
    (built # NoInstance /\ Evaluated) =>
        /\ \A i \in 1..Len(received) : received[i].rng = rng
        /\ Len(received) >= 1 => received[1].cls = built.cls
        /\ (op = "log_density" /\ raised = "none") =>
              Cardinality({i \in 1..Len(received) :
                              received[i].cls = built.cls}) = Len(lastPop)
        /\ "rng" \notin DOMAIN inst /\ "RNG" \notin DOMAIN inst

C14_Witness ==
    /\ built.cls = "Mixture"
    /\ Len(built.pairs.items) = 2
    /\ ~built.pairs.lazy
    /\ op = "log_density"
    /\ Len(lastPop) = 2
    /\ rng = "rng"
    /\ Len(received) = 6
    /\ \A i \in 1..6 : received[i].rng = "rng"

\* C15: when every component NLLF is finite, however large, and every
\* weight is positive (and finite), Mixture.nllf returns a finite value,
\* never nan or +infinity.
C15_FiniteForFiniteComponents ==
    (/\ built.cls = "Mixture"
     /\ op = "nllf"
     /\ Len(built.pairs.items) >= 1
     /\ \A i \in 1..Len(built.pairs.items) :
            /\ IsFinite(Component_nllf(built.pairs.items[i].M, lastX))
            /\ IsFinite(built.pairs.items[i].w)
            /\ Sign(built.pairs.items[i].w) > 0)
        => /\ raised = "none"
           /\ IsFinite(ret)

\* ------------------------------------------------------------------------
\* gui/app_panel.py: AppPanel
\* ------------------------------------------------------------------------

\* the models handed to the panel: what matters to the handlers is the
\* number of fittable parameters
Models == {[set |-> TRUE, parameters |-> n] : n \in 0..MaxPar}

\* event.problem.dof of a fit event
Dofs == {0, 1}

\* the panel as a handler finds it
Self == [model |-> model, console |-> console, enabled |-> enabled]

\* self.set_model(m): self.model is assigned and the views are pointed at
\* the model; self.console['model'] = m raises AttributeError when the
\* attribute console was never assigned, and the Enable calls after it are
\* not reached
set_model(self, m) ==
    IF ~self.console
    THEN [model |-> m, enabled |-> self.enabled, raised |-> "AttributeError"]
    ELSE [model |-> m,
          enabled |-> [self.enabled EXCEPT !.fit_menu_start = TRUE,
                                           !.fit_menu_options = TRUE,
                                           !.tb_start = TRUE],
          raised |-> "none"]

\* the state after AppPanel.__init__: AppPanel assigns neither self.model
\* nor self.console; whether code outside the class has assigned console
\* before the first event is left open
GuiInit ==
    /\ model = NoModel
    /\ console \in BOOLEAN
    /\ enabled = AllDisabled
    /\ fit_thread = NoThread
    /\ live = {}
    /\ created = 0
    /\ sb = NoStatus
    /\ event = "none"
    /\ guiRaised = "none"
    /\ logged = FALSE
    /\ ModelIdle
    /\ ChebyIdle

\* a model.new signal delivered to the panel: OnModelNew(model)
OnModelNew ==
    \E m \in Models : \E r \in {set_model(Self, m)} :
        /\ model' = r.model
        /\ enabled' = r.enabled
        /\ guiRaised' = r.raised
        /\ logged' = FALSE
        /\ event' = "OnModelNew"
        /\ UNCHANGED <<console, fit_thread, live, created, sb, chebyVars,
                       modelVars>>

\* File > New: OnFileNew -> new_model -> set_model(gen())
OnFileNew ==
    \E m \in Models : \E r \in {set_model(Self, m)} :
        /\ model' = r.model
        /\ enabled' = r.enabled
        /\ guiRaised' = r.raised
        /\ logged' = FALSE
        /\ event' = "OnFileNew"
        /\ UNCHANGED <<console, fit_thread, live, created, sb, chebyVars,
                       modelVars>>

\* load_model(path) and import_model(path): the problem is read and
\* signal.model_new delivers it to OnModelNew, all inside try; the bare
\* except turns every exception, that of set_model included, into a log
\* message
model_new_in_try(self, loaded, m) ==
    IF ~loaded
    THEN [model |-> self.model, enabled |-> self.enabled, raised |-> "none",
          logged |-> TRUE]
    ELSE [model |-> set_model(self, m).model,
          enabled |-> set_model(self, m).enabled,
          raised |-> "none",
          logged |-> set_model(self, m).raised # "none"]

\* File > Open with a path chosen: OnFileOpen -> load_model(path)
OnFileOpen ==
    \E loaded \in BOOLEAN : \E m \in Models :
      \E r \in {model_new_in_try(Self, loaded, m)} :
        /\ model' = r.model
        /\ enabled' = r.enabled
        /\ guiRaised' = r.raised
        /\ logged' = r.logged
        /\ event' = "OnFileOpen"
        /\ UNCHANGED <<console, fit_thread, live, created, sb, chebyVars,
                       modelVars>>

\* File > Import with a path chosen: OnFileImport -> import_model(path)
OnFileImport ==
    \E loaded \in BOOLEAN : \E m \in Models :
      \E r \in {model_new_in_try(Self, loaded, m)} :
        /\ model' = r.model
        /\ enabled' = r.enabled
        /\ guiRaised' = r.raised
        /\ logged' = r.logged
        /\ event' = "OnFileImport"
        /\ UNCHANGED <<console, fit_thread, live, created, sb, chebyVars,
                       modelVars>>

\* the test of OnFitStart: if self.fit_thread:
never_running(ft) == FALSE
fit_running(ft) == ft # NoThread

\* OnFitStart(event)
OnFitStart ==
    /\ event' = "OnFitStart"
    /\ IF fit_running(fit_thread)
       THEN /\ sb' = [sb EXCEPT !.f0 = "Error: Fit already running"]
            /\ guiRaised' = "none"
            /\ logged' = FALSE
            /\ UNCHANGED <<fit_thread, live, created>>
       ELSE IF ~model.set
       THEN \* self.model is not assigned: AttributeError, which the
            \* except ValueError clause lets through
            /\ guiRaised' = "AttributeError"
            /\ logged' = FALSE
            /\ UNCHANGED <<fit_thread, live, created, sb>>
       ELSE IF model.parameters = 0
       THEN /\ sb' = [sb EXCEPT !.f3 = "Error: No fittable parameters"]
            /\ guiRaised' = "none"
            /\ logged' = TRUE
            /\ UNCHANGED <<fit_thread, live, created>>
       ELSE /\ created < MaxFits
            /\ created' = created + 1
            /\ fit_thread' = created + 1
            /\ live' = live \cup {created + 1}
            /\ sb' = [sb EXCEPT !.f3 = "Fit status: Running"]
            /\ guiRaised' = "none"
            /\ logged' = FALSE
    /\ UNCHANGED <<model, console, enabled, chebyVars, modelVars>>

\* OnFitStop(event): prints a line, not implemented
OnFitStop ==
    /\ event' = "OnFitStop"
    /\ guiRaised' = "none"
    /\ logged' = FALSE
    /\ UNCHANGED <<model, console, enabled, fit_thread, live, created, sb,
                   chebyVars, modelVars>>

\* a FitThread posts its events to the panel while it runs, and
\* EVT_FIT_COMPLETE once, as the last of them
FitThread_posts(th) == th \in live

\* chisq = nice(2*event.value/event.problem.dof)
chisq_exc(dof) == IF dof = 0 THEN "ZeroDivisionError" ELSE "none"

\* OnFitProgress(event)
OnFitProgress ==
    \E th \in 1..MaxFits : \E dof \in Dofs :
        /\ FitThread_posts(th)
        /\ event' = "OnFitProgress"
        /\ guiRaised' = chisq_exc(dof)
        /\ logged' = (chisq_exc(dof) = "none")
        /\ UNCHANGED <<model, console, enabled, fit_thread, live, created,
                       sb, chebyVars, modelVars>>

\* OnFitImprovement(event)
OnFitImprovement ==
    \E th \in 1..MaxFits :
        /\ FitThread_posts(th)
        /\ event' = "OnFitImprovement"
        /\ guiRaised' = "none"
        /\ logged' = FALSE
        /\ UNCHANGED <<model, console, enabled, fit_thread, live, created,
                       sb, chebyVars, modelVars>>

\* OnFitComplete(event): self.fit_thread = NoThread is the first statement, the
\* status text the last
OnFitComplete ==
    \E th \in 1..MaxFits : \E dof \in Dofs :
        /\ FitThread_posts(th)
        /\ event' = "OnFitComplete"
        /\ fit_thread' = NoThread
        /\ live' = live \ {th}
        /\ guiRaised' = chisq_exc(dof)
        /\ logged' = (chisq_exc(dof) = "none")
        /\ sb' = IF chisq_exc(dof) = "none"
                 THEN [sb EXCEPT !.f3 = "Fit status: Complete"]
                 ELSE sb
        /\ UNCHANGED <<model, console, enabled, created, chebyVars,
                       modelVars>>

GuiNext ==
    \/ OnModelNew
    \/ OnFileNew
    \/ OnFileOpen
    \/ OnFileImport
    \/ OnFitStart
    \/ OnFitStop
    \/ OnFitProgress
    \/ OnFitImprovement
    \/ OnFitComplete

SpecGui == GuiInit /\ [][GuiNext]_vars

\* ------------------------------------------------------------------------
\* Claims about gui/app_panel.py
\* ------------------------------------------------------------------------

\* the three items set_model is to enable
StartItemsEnabled ==
    /\ enabled.fit_menu_start
    /\ enabled.fit_menu_options
    /\ enabled.tb_start

\* C17: the Start Fit and Fit Options menu items and the Start Fit tool are
\* disabled after construction, and after every delivery of a model.new
\* signal (OnModelNew -> set_model) set_model has reached its end and the
\* three of them are enabled.
C17_EnabledAfterModelNew ==
    /\ event = "none" => enabled = AllDisabled
    /\ event = "OnModelNew" =>
        /\ guiRaised = "none"
        /\ StartItemsEnabled

\* C18: at most one fit thread exists at any time, and self.fit_thread
\* refers to it.  An OnFitStart that finds self.fit_thread set creates no
\* FitThread, leaves self.fit_thread as it is and reports 'Error: Fit
\* already running'; an OnFitStart on a model without fittable parameters
\* creates no FitThread; and no handler but OnFitComplete sets
\* self.fit_thread back to None.
C18_AtMostOneFitThread ==
    [][ /\ Cardinality(live') <= 1
        /\ live' = (IF fit_thread' = NoThread THEN {} ELSE {fit_thread'})
        /\ (event' = "OnFitStart" /\ fit_thread # NoThread) =>
            /\ fit_thread' = fit_thread
            /\ live' = live
            /\ created' = created
            /\ sb'.f0 = "Error: Fit already running"
        /\ (event' = "OnFitStart" /\ model.parameters = 0) =>
            /\ created' = created
            /\ live' = live
        /\ (fit_thread # NoThread /\ fit_thread' = NoThread) =>
            event' = "OnFitComplete"
      ]_vars

\* the first thread is running and a later OnFitStart was turned away
C18_Witness ==
    /\ event = "OnFitStart"
    /\ created = 1
    /\ fit_thread = 1
    /\ live = {1}
    /\ sb.f3 = "Fit status: Running"
    /\ sb.f0 = "Error: Fit already running"

====
